---- MODULE Spec2Model ----
(***************************************************************************)
(* A model of arrive.map_environment (src/src/arrive/map_environment.py):  *)
(* show_on_basemap and its helpers _is_vector, _is_raster, _load_vector    *)
(* and _load_raster.                                                       *)
(*                                                                         *)
(* show_on_basemap is one linear function.  It is modelled statement by    *)
(* statement: the variable pc is the position inside the running call and  *)
(* every action is one statement (or one helper call) of the function.     *)
(* What outlives a call is the process-wide state of the libraries: the    *)
(* raster handles that are still open and pyplot's registry of figures.    *)
(*                                                                         *)
(* Paths and extensions are sequences of one-character strings, so that    *)
(* Path.suffix and str.lower() are computed, not assumed.                  *)
(***************************************************************************)
EXTENDS Integers, Sequences, FiniteSets, TLC

(***************************************************************************)
(* Bounds of the model.                                                    *)
(***************************************************************************)
\* number of calls of show_on_basemap made one after the other
MaxCalls == 3
\* largest width and height of a dataset's bounding box, in source units
MaxSize == 1

(***************************************************************************)
(* Characters, str.lower() and Path.suffix.                                *)
(***************************************************************************)
LowerAlpha ==
  << "a","b","c","d","e","f","g","h","i","j","k","l","m",
     "n","o","p","q","r","s","t","u","v","w","x","y","z" >>

UpperAlpha ==
  << "A","B","C","D","E","F","G","H","I","J","K","L","M",
     "N","O","P","Q","R","S","T","U","V","W","X","Y","Z" >>

\* one character of str.lower(): an upper-case letter becomes its lower-case
\* letter, every other character is kept
LowerChar(c) ==
  IF \E i \in 1..Len(UpperAlpha) : UpperAlpha[i] = c
  THEN LowerAlpha[CHOOSE i \in 1..Len(UpperAlpha) : UpperAlpha[i] = c]
  ELSE c

\* a faulty variant of lower(): the string is compared as written
lower_kept(s) == s

\* str.lower()
lower(s) == [i \in 1..Len(s) |-> LowerChar(s[i])]

\* str.rfind(c): the last index of c in s, 0 when there is none
\* (Python's -1 and 0-based indices, shifted by one)
RFind(s, c) ==
  IF \E i \in 1..Len(s) : s[i] = c
  THEN CHOOSE i \in 1..Len(s) : s[i] = c /\ \A j \in (i+1)..Len(s) : s[j] # c
  ELSE 0

\* s[i:] of Python with i 1-based
From(s, i) == SubSeq(s, i, Len(s))

\* Path.name: the final component of the path
name(p) == From(p, RFind(p, "/") + 1)

\* Path.suffix: the name from its last dot on, when that dot is neither the
\* first nor the last character of the name; otherwise the empty string
suffix(p) ==
  LET n == name(p)
      i == RFind(n, ".")
  IN  IF 1 < i /\ i < Len(n) THEN From(n, i) ELSE << >>

(***************************************************************************)
(* The extension sets of _is_raster and _is_vector.                        *)
(***************************************************************************)
Ext_tif     == << ".","t","i","f" >>
Ext_tiff    == << ".","t","i","f","f" >>
Ext_geotiff == << ".","g","e","o","t","i","f","f" >>
Ext_shp     == << ".","s","h","p" >>
Ext_geojson == << ".","g","e","o","j","s","o","n" >>
Ext_json    == << ".","j","s","o","n" >>
Ext_gpkg    == << ".","g","p","k","g" >>
Ext_fgb     == << ".","f","g","b" >>

RasterExts == { Ext_tif, Ext_tiff, Ext_geotiff }

VectorExts == { Ext_shp, Ext_geojson, Ext_json, Ext_gpkg, Ext_fgb }

_is_raster(path) == lower(suffix(path)) \in RasterExts

_is_vector(path) == lower(suffix(path)) \in VectorExts

(***************************************************************************)
(* Files, datasets and coordinate reference systems.                       *)
(*                                                                         *)
(* A dataset is modelled by what the function reads of it: its reference   *)
(* system (crs, "none" for a source that declares none) and its bounding   *)
(* box <<minx, miny, maxx, maxy>> (for a raster: left, bottom, right,      *)
(* top).  A file is absent, or holds a vector dataset, a raster dataset,   *)
(* or bytes neither library can read.                                      *)
(***************************************************************************)
EPSG4326 == "EPSG:4326"
EPSG3857 == "EPSG:3857"

NoCRS == "none"

\* the bounding box of a vector dataset may be degenerate (a single point,
\* a vertical or a horizontal line)
VectorBoxes == { << 1, 4, 1 + w, 4 + h >> : w \in 0..MaxSize, h \in 0..MaxSize }

\* a raster has at least one pixel of non-zero size in each direction
RasterBoxes == { << 1, 4, 1 + w, 4 + h >> : w \in 1..MaxSize, h \in 1..MaxSize }

NoBox == << 0, 0, 0, 0 >>

VectorFiles ==
  [ format : {"vector"}, crs : {NoCRS, EPSG4326, "EPSG:32633", EPSG3857}, box : VectorBoxes ]

RasterFiles ==
  [ format : {"raster"}, crs : {NoCRS, EPSG4326, EPSG3857}, box : RasterBoxes ]

NoFile == [ format |-> "absent", crs |-> NoCRS, box |-> NoBox ]

Garbage == [ format |-> "garbage", crs |-> NoCRS, box |-> NoBox ]

Files == {NoFile, Garbage} \cup VectorFiles \cup RasterFiles

\* A stand-in for the projection arithmetic of pyproj: each reference system
\* maps into Web Mercator by its own factor, so that coordinates reprojected
\* from different systems differ and the identity is only the map from
\* EPSG:3857 to itself.
MercatorFactor(crs) ==
  CASE crs = EPSG3857 -> 1
    [] crs = EPSG4326 -> 2
    [] OTHER          -> 3

\* the bounding box of data reprojected from crs to EPSG:3857
\* (GeoDataFrame.to_crs followed by total_bounds; rasterio.warp.transform_bounds)
to_mercator(crs, box) == [ i \in 1..4 |-> box[i] * MercatorFactor(crs) ]

(***************************************************************************)
(* Paths given to show_on_basemap in the main specification.               *)
(***************************************************************************)
Path_shp == << "a" >> \o Ext_shp
Path_TIF == << "a", ".", "T", "I", "F" >>
Path_xyz == << "a", ".", "x", "y", "z" >>
Path_noext == << "a" >>

CallPaths == { Path_shp, Path_TIF, Path_xyz, Path_noext }

Inputs == [ path : CallPaths, file : Files, add_attribution : BOOLEAN ]

(***************************************************************************)
(* Paths for the dispatcher: stems (a plain name, names that carry an      *)
(* earlier extension, names inside a directory whose name has an           *)
(* extension, the empty stem of a hidden file) followed by an ending (no   *)
(* extension, a lone dot, or an extension in lower case, in upper case or  *)
(* capitalised).                                                           *)
(***************************************************************************)
UpperChar(c) ==
  IF \E i \in 1..Len(LowerAlpha) : LowerAlpha[i] = c
  THEN UpperAlpha[CHOOSE i \in 1..Len(LowerAlpha) : LowerAlpha[i] = c]
  ELSE c

Upper(s) == [ i \in 1..Len(s) |-> UpperChar(s[i]) ]

Capitalised(s) == [ i \in 1..Len(s) |-> IF i = 2 THEN UpperChar(s[i]) ELSE s[i] ]

OtherExts ==
  { << ".","x","y","z" >>, << ".","s","h","x" >>, << ".","t","i" >>,
    << ".","j","s","o","n","l" >>, << ".","t","x","t" >> }

Endings ==
  { << >>, << "." >> }
    \cup UNION { { e, Upper(e), Capitalised(e) } :
                   e \in VectorExts \cup RasterExts \cup OtherExts }

Stems ==
  { << >>,
    << "a" >>,
    << "a", ".", "t", "i", "f" >>,
    << "a", ".", "s", "h", "p" >>,
    << "d", ".", "s", "h", "p", "/", "a" >>,
    << "d", ".", "t", "i", "f", "/" >> }

AllPaths == { st \o e : st \in Stems, e \in Endings } \ { << >> }

\* the dispatcher is followed up to the loader: the file is absent or holds
\* nothing a loader can read
DispatchFiles == { NoFile, Garbage }

(***************************************************************************)
(* Inputs of the calls that are compared with one another.                 *)
(***************************************************************************)
RepeatFiles ==
  { NoFile, Garbage,
    [ format |-> "vector", crs |-> NoCRS, box |-> << 1, 4, 1, 5 >> ],
    [ format |-> "vector", crs |-> "EPSG:32633", box |-> << 1, 4, 2, 5 >> ],
    [ format |-> "raster", crs |-> NoCRS, box |-> << 1, 4, 2, 5 >> ],
    [ format |-> "raster", crs |-> EPSG4326, box |-> << 1, 4, 2, 5 >> ] }

RepeatInputs ==
  [ path : { Path_shp, Path_TIF, Path_xyz }, file : RepeatFiles,
    add_attribution : BOOLEAN ]

(***************************************************************************)
(* Exceptions.                                                             *)
(***************************************************************************)
NoError ==
  [ type |-> "none", about |-> << >>, text |-> "", vectors |-> << >>,
    rasters |-> << >>, origin |-> "" ]

\* line 100: FileNotFoundError(f"Could not find {path}.")
FileNotFoundError(path) ==
  [ type |-> "FileNotFoundError", about |-> path, text |-> "Could not find",
    vectors |-> << >>, rasters |-> << >>, origin |-> "show_on_basemap" ]

\* the extensions the message of lines 175-176 lists
MsgVectors == << Ext_shp, Ext_geojson, Ext_json, Ext_gpkg, Ext_fgb >>

MsgRasters == << Ext_tif, Ext_tiff, Ext_geotiff >>

\* a faulty variant of ValueError: the message names the lower-cased extension
ValueError_lowered(path) ==
  [ type |-> "ValueError", about |-> lower(suffix(path)), text |-> "not recognized",
    vectors |-> MsgVectors, rasters |-> MsgRasters, origin |-> "show_on_basemap" ]

\* lines 173-177: ValueError(f"Filetype '{path.suffix}' not recognized. ...")
ValueError(path) ==
  [ type |-> "ValueError", about |-> suffix(path), text |-> "not recognized",
    vectors |-> MsgVectors, rasters |-> MsgRasters, origin |-> "show_on_basemap" ]

\* an exception raised inside a library call (geopandas, rasterio, matplotlib,
\* contextily); origin names the call that raised it
LibraryError(call) ==
  [ type |-> "LibraryError", about |-> << >>, text |-> "", vectors |-> << >>,
    rasters |-> << >>, origin |-> call ]

(***************************************************************************)
(* Library objects: GeoDataFrame, Axes.                                    *)
(***************************************************************************)
NoGdf == [ crs |-> NoCRS, box |-> NoBox, from |-> NoCRS ]

\* gpd.read_file: the features with the reference system the source declares
read_file(file) == [ crs |-> file.crs, box |-> file.box, from |-> NoCRS ]

\* GeoDataFrame.set_crs: the reference system is assigned, no coordinate moves
set_crs(gdf, crs) == [ gdf EXCEPT !.crs = crs ]

\* GeoDataFrame.to_crs(epsg=3857): the coordinates are transformed from the
\* system the frame has; from records that system
to_crs_3857(gdf) ==
  [ crs |-> EPSG3857, box |-> to_mercator(gdf.crs, gdf.box), from |-> gdf.crs ]

\* a faulty variant of _load_vector: EPSG:4326 is assigned to every source
_load_vector_override(file) == to_crs_3857(set_crs(read_file(file), EPSG4326))

\* _load_vector, lines 24-36, on a source read_file can read
_load_vector(file) ==
  LET gdf == read_file(file)
      gdf_crs == IF gdf.crs = NoCRS THEN set_crs(gdf, EPSG4326) ELSE gdf
  IN  to_crs_3857(gdf_crs)

\* GeoDataFrame.total_bounds: (minx, miny, maxx, maxy)
total_bounds(gdf) == gdf.box

\* a new Axes: the default view (0, 1) x (0, 1), draw order 0, an opaque
\* background patch, a visible frame, nothing drawn
NewAxes ==
  [ xlim |-> << 0, 1 >>, ylim |-> << 0, 1 >>, zorder |-> 0, alpha |-> 1,
    frameon |-> TRUE, layers |-> << >>, xlabel |-> "", ylabel |-> "" ]

\* Axes.set_xlim(lo, hi) / Axes.set_ylim(lo, hi): the view becomes (lo, hi);
\* matplotlib refuses a singular view and widens identical limits on both
\* sides ("Attempting to set identical low and high xlims makes transformation
\* singular; automatically expanding")
set_lim(lo, hi) == IF lo = hi THEN << lo - 1, hi + 1 >> ELSE << lo, hi >>

\* the view GeoDataFrame.plot leaves: the data's box with the autoscale margin
plot_view_x(box) == << box[1] - 2, box[3] + 2 >>

plot_view_y(box) == << box[2] - 2, box[4] + 2 >>

\* the extent (minx, miny, maxx, maxy) an Axes shows
extent(ax) == << ax.xlim[1], ax.ylim[1], ax.xlim[2], ax.ylim[2] >>

\* cx.add_basemap(ax, crs=..., attribution=...): tiles are fetched for the
\* extent the frame shows and drawn into it; the frame's limits are kept
add_basemap(ax, crs, attribution) ==
  [ ax EXCEPT !.layers = Append(@,
      [ kind |-> "basemap", crs |-> crs, box |-> extent(ax),
        attribution |-> attribution ]) ]

(***************************************************************************)
(* The state.                                                              *)
(***************************************************************************)
VARIABLES
  pc,           \* the statement of show_on_basemap that runs next
  calls,        \* number of calls started
  inp,          \* the running call's arguments and the file at data_path
  gdf,          \* local gdf (vector path)
  src,          \* local src: the raster handle's id, 0 when there is none
  bnds,         \* locals raster_crs, (left, bottom, right, top) and b3857
  fig,          \* local fig: the figure's number, 0 when there is none
  frames,       \* the Axes of fig, in the order they were added
  openHandles,  \* process-wide: the raster handles that are open
  nHandles,     \* process-wide: number of raster handles opened so far
  figCount,     \* process-wide: number of figures pyplot has created
  log,          \* the statements the running call has executed, in order
  fault,        \* the library call of this call that failed for a reason
                \* outside the arguments and the file ("" when none did)
  at_call,      \* the process-wide state when the running call started
  result,       \* how the last call ended
  earlier       \* a completed earlier call, kept for comparison

vars ==
  << pc, calls, inp, gdf, src, bnds, fig, frames, openHandles, nHandles,
     figCount, log, fault, at_call, result, earlier >>

NoBounds == [ raster_crs |-> NoCRS, native |-> NoBox, b3857 |-> NoBox ]

NoResult ==
  [ status |-> "running", error |-> NoError, fig |-> 0, ax |-> 0, frames |-> << >> ]

NoInput == [ path |-> << >>, file |-> NoFile, add_attribution |-> FALSE ]

NoEarlier == [ set |-> FALSE, inp |-> NoInput, fault |-> "", result |-> NoResult ]

Init ==
  /\ pc = "idle"
  /\ calls = 0
  /\ inp = NoInput
  /\ gdf = NoGdf
  /\ src = 0
  /\ bnds = NoBounds
  /\ fig = 0
  /\ frames = << >>
  /\ openHandles = {}
  /\ nHandles = 0
  /\ figCount = 0
  /\ log = << >>
  /\ fault = ""
  /\ at_call = [ figCount |-> 0, openHandles |-> {} ]
  /\ result = NoResult
  /\ earlier = NoEarlier

(***************************************************************************)
(* How a call ends.                                                        *)
(***************************************************************************)
\* a raise statement of show_on_basemap, or an exception leaving it
Raise(e) ==
  /\ pc' = "done"
  /\ result' = [ NoResult EXCEPT !.status = "raised", !.error = e ]

\* a faulty variant of Propagate: the raster handle is released on the way out
Propagate_closing(e) ==
  /\ Raise(e)
  /\ openHandles' = openHandles \ {src}

\* An exception raised inside a library call: show_on_basemap has no try
\* statement, so the exception leaves the function as it is and no statement
\* after the failing one runs; in particular src.close() does not.
Propagate(e) ==
  /\ Raise(e)
  /\ UNCHANGED openHandles

\* return fig, ax   (ax is the frame at position k of fig's frames)
Return(k) ==
  /\ pc' = "done"
  /\ result' = [ status |-> "returned", error |-> NoError, fig |-> fig,
                 ax |-> k, frames |-> frames ]

(***************************************************************************)
(* show_on_basemap: the call and the existence check.                      *)
(***************************************************************************)
\* line 97: a call starts with fresh locals
Begin(i) ==
  /\ pc \in {"idle", "done"}
  /\ calls < MaxCalls
  /\ pc' = "exists"
  /\ calls' = calls + 1
  /\ inp' = i
  /\ gdf' = NoGdf
  /\ src' = 0
  /\ bnds' = NoBounds
  /\ fig' = 0
  /\ frames' = << >>
  /\ log' = << >>
  /\ fault' = ""
  /\ result' = NoResult
  /\ at_call' = [ figCount |-> figCount, openHandles |-> openHandles ]
  /\ UNCHANGED << openHandles, nHandles, figCount >>

\* the call that just ended
Completed == [ set |-> TRUE, inp |-> inp, fault |-> fault, result |-> result ]

\* show_on_basemap(data_path, add_attribution=...) is called
Call ==
  \E i \in Inputs :
    /\ Begin(i)
    /\ UNCHANGED earlier

\* the same, on any of the paths of AllPaths
CallPath ==
  \E p \in AllPaths, f \in DispatchFiles :
    /\ Begin([ path |-> p, file |-> f, add_attribution |-> TRUE ])
    /\ UNCHANGED earlier

\* the same, where the call that just ended may be kept for comparison with
\* the calls that follow
CallRepeat ==
  \E i \in RepeatInputs :
    /\ Begin(i)
    /\ earlier' \in {earlier} \cup (IF pc = "done" THEN {Completed} ELSE {})

\* Path.exists()
exists(file) == file.format # "absent"

\* a faulty variant of CheckExists: the check is left out
CheckExists_skipped ==
  /\ pc = "exists"
  /\ pc' = "dispatch"
  /\ log' = Append(log, "exists")
  /\ UNCHANGED << calls, inp, gdf, src, bnds, fig, frames, openHandles,
                  nHandles, figCount, fault, at_call, result, earlier >>

\* lines 99-100
CheckExists ==
  /\ pc = "exists"
  /\ log' = Append(log, "exists")
  /\ IF ~ exists(inp.file)
     THEN Raise(FileNotFoundError(inp.path))
     ELSE pc' = "dispatch" /\ UNCHANGED result
  /\ UNCHANGED << calls, inp, gdf, src, bnds, fig, frames, openHandles,
                  nHandles, figCount, fault, at_call, earlier >>

\* lines 104, 130 and 172-177: the if / elif / else on the extension
Dispatch ==
  /\ pc = "dispatch"
  /\ IF _is_vector(inp.path)
     THEN /\ pc' = "load_vector"
          /\ log' = log \o << "_is_vector" >>
          /\ UNCHANGED result
     ELSE IF _is_raster(inp.path)
     THEN /\ pc' = "load_raster"
          /\ log' = log \o << "_is_vector", "_is_raster" >>
          /\ UNCHANGED result
     ELSE /\ Raise(ValueError(inp.path))
          /\ log' = log \o << "_is_vector", "_is_raster" >>
  /\ UNCHANGED << calls, inp, gdf, src, bnds, fig, frames, openHandles,
                  nHandles, figCount, fault, at_call, earlier >>

\* a faulty variant of new_figure: the current figure is used again
new_figure_current == IF figCount > 0 THEN figCount ELSE 1

\* plt.subplots creates a figure of its own: pyplot numbers it after the
\* figures it already holds
new_figure == figCount + 1

(***************************************************************************)
(* show_on_basemap: the vector path, lines 104-128.                        *)
(***************************************************************************)
\* line 106: gdf = _load_vector(path)
LoadVector ==
  /\ pc = "load_vector"
  /\ log' = Append(log, "_load_vector")
  /\ \E fails \in BOOLEAN :
       IF inp.file.format # "vector"
       THEN Propagate(LibraryError("read_file")) /\ UNCHANGED << gdf, fault >>
       ELSE IF fails
       THEN /\ Propagate(LibraryError("read_file"))
            /\ fault' = "read_file"
            /\ UNCHANGED gdf
       ELSE /\ gdf' = _load_vector(inp.file)
            /\ pc' = "v_subplots"
            /\ UNCHANGED << result, fault, openHandles >>
  /\ UNCHANGED << calls, inp, src, bnds, fig, frames, nHandles, figCount,
                  at_call, earlier >>

\* line 108: fig, ax = plt.subplots(figsize=figsize)
VSubplots ==
  /\ pc = "v_subplots"
  /\ log' = Append(log, "subplots")
  /\ \E fails \in BOOLEAN :
       IF fails
       THEN /\ Propagate(LibraryError("subplots"))
            /\ fault' = "subplots"
            /\ UNCHANGED << fig, frames, figCount >>
       ELSE /\ fig' = new_figure
            /\ figCount' = figCount + 1
            /\ frames' = << NewAxes >>
            /\ pc' = "v_plot"
            /\ UNCHANGED << result, fault, openHandles >>
  /\ UNCHANGED << calls, inp, gdf, src, bnds, nHandles, at_call, earlier >>

\* GeoDataFrame.plot(ax=ax): the features are drawn and the view is autoscaled
plot(g, ax) ==
  [ ax EXCEPT !.layers = Append(@, [ kind |-> "vector", crs |-> g.crs,
                                     box |-> g.box, attribution |-> FALSE ]),
              !.xlim = plot_view_x(g.box),
              !.ylim = plot_view_y(g.box) ]

\* line 111: gdf.plot(ax=ax, **layer_kwargs)
VPlot ==
  /\ pc = "v_plot"
  /\ log' = Append(log, "plot")
  /\ \E fails \in BOOLEAN :
       IF fails
       THEN /\ Propagate(LibraryError("plot"))
            /\ fault' = "plot"
            /\ UNCHANGED frames
       ELSE /\ frames' = [ frames EXCEPT ![1] = plot(gdf, @) ]
            /\ pc' = "v_basemap"
            /\ UNCHANGED << result, fault, openHandles >>
  /\ UNCHANGED << calls, inp, gdf, src, bnds, fig, nHandles, figCount,
                  at_call, earlier >>

\* lines 114-119: cx.add_basemap(ax, crs=gdf.crs, ...)
VBasemap ==
  /\ pc = "v_basemap"
  /\ log' = Append(log, "add_basemap")
  /\ \E fails \in BOOLEAN :
       IF fails
       THEN /\ Propagate(LibraryError("add_basemap"))
            /\ fault' = "add_basemap"
            /\ UNCHANGED frames
       ELSE /\ frames' = [ frames EXCEPT
                             ![1] = add_basemap(@, gdf.crs, inp.add_attribution) ]
            /\ pc' = "v_limits"
            /\ UNCHANGED << result, fault, openHandles >>
  /\ UNCHANGED << calls, inp, gdf, src, bnds, fig, nHandles, figCount,
                  at_call, earlier >>

\* a faulty variant of VSetLimits: the bounds are read in the order (minx, maxx,
\* miny, maxy)
VSetLimits_order ==
  /\ pc = "v_limits"
  /\ log' = Append(log, "set_lim")
  /\ frames' = [ frames EXCEPT
       ![1].xlim = set_lim(total_bounds(gdf)[1], total_bounds(gdf)[2]),
       ![1].ylim = set_lim(total_bounds(gdf)[3], total_bounds(gdf)[4]) ]
  /\ pc' = "v_labels"
  /\ UNCHANGED << calls, inp, gdf, src, bnds, fig, openHandles, nHandles,
                  figCount, fault, at_call, result, earlier >>

\* lines 122-123: ax.set_xlim(total_bounds[0], total_bounds[2]);
\*                ax.set_ylim(total_bounds[1], total_bounds[3])
VSetLimits ==
  /\ pc = "v_limits"
  /\ log' = Append(log, "set_lim")
  /\ frames' = [ frames EXCEPT
       ![1].xlim = set_lim(total_bounds(gdf)[1], total_bounds(gdf)[3]),
       ![1].ylim = set_lim(total_bounds(gdf)[2], total_bounds(gdf)[4]) ]
  /\ pc' = "v_labels"
  /\ UNCHANGED << calls, inp, gdf, src, bnds, fig, openHandles, nHandles,
                  figCount, fault, at_call, result, earlier >>

\* lines 125-126: the axis labels
VLabels ==
  /\ pc = "v_labels"
  /\ log' = Append(log, "set_label")
  /\ frames' = [ frames EXCEPT ![1].xlabel = "Web Mercator X (meters)",
                               ![1].ylabel = "Web Mercator Y (meters)" ]
  /\ pc' = "v_return"
  /\ UNCHANGED << calls, inp, gdf, src, bnds, fig, openHandles, nHandles,
                  figCount, fault, at_call, result, earlier >>

\* line 128: return fig, ax
VReturn ==
  /\ pc = "v_return"
  /\ log' = Append(log, "return")
  /\ Return(1)
  /\ UNCHANGED << calls, inp, gdf, src, bnds, fig, frames, openHandles,
                  nHandles, figCount, fault, at_call, earlier >>

(***************************************************************************)
(* show_on_basemap: the raster path, lines 130-170.                        *)
(***************************************************************************)
\* line 132: src = _load_raster(path), which is rasterio.open(path) (line 42);
\* the dataset is opened, its pixels are neither read nor reprojected
LoadRaster ==
  /\ pc = "load_raster"
  /\ log' = Append(log, "open")
  /\ \E fails \in BOOLEAN :
       IF inp.file.format # "raster"
       THEN /\ Propagate(LibraryError("open"))
            /\ UNCHANGED << src, nHandles, fault >>
       ELSE IF fails
       THEN /\ Propagate(LibraryError("open"))
            /\ fault' = "open"
            /\ UNCHANGED << src, nHandles >>
       ELSE /\ src' = nHandles + 1
            /\ nHandles' = nHandles + 1
            /\ openHandles' = openHandles \cup {nHandles + 1}
            /\ pc' = "r_subplots"
            /\ UNCHANGED << result, fault >>
  /\ UNCHANGED << calls, inp, gdf, bnds, fig, frames, figCount, at_call, earlier >>

\* line 134: fig, ax = plt.subplots(figsize=figsize)
RSubplots ==
  /\ pc = "r_subplots"
  /\ log' = Append(log, "subplots")
  /\ \E fails \in BOOLEAN :
       IF fails
       THEN /\ Propagate(LibraryError("subplots"))
            /\ fault' = "subplots"
            /\ UNCHANGED << fig, frames, figCount >>
       ELSE /\ fig' = new_figure
            /\ figCount' = figCount + 1
            /\ frames' = << NewAxes >>
            /\ pc' = "r_show"
            /\ UNCHANGED << result, fault, openHandles >>
  /\ UNCHANGED << calls, inp, gdf, src, bnds, nHandles, at_call, earlier >>

\* a faulty variant of show_raster: the pixel grid is warped to Web Mercator first
show_raster_warped(file, ax) ==
  [ ax EXCEPT !.layers = Append(@, [ kind |-> "raster", crs |-> EPSG3857,
                                     box |-> to_mercator(file.crs, file.box),
                                     attribution |-> FALSE ]),
              !.xlim = << to_mercator(file.crs, file.box)[1],
                          to_mercator(file.crs, file.box)[3] >>,
              !.ylim = << to_mercator(file.crs, file.box)[2],
                          to_mercator(file.crs, file.box)[4] >> ]

\* rasterio.plot.show(src, ax=ax): the pixels are drawn with the dataset's own
\* transform, so the frame shows the dataset's bounds in its native system
show_raster(file, ax) ==
  [ ax EXCEPT !.layers = Append(@, [ kind |-> "raster", crs |-> file.crs,
                                     box |-> file.box, attribution |-> FALSE ]),
              !.xlim = << file.box[1], file.box[3] >>,
              !.ylim = << file.box[2], file.box[4] >> ]

\* line 137: show_raster(src, ax=ax, **layer_kwargs)
RShow ==
  /\ pc = "r_show"
  /\ log' = Append(log, "show_raster")
  /\ \E fails \in BOOLEAN :
       IF fails
       THEN /\ Propagate(LibraryError("show_raster"))
            /\ fault' = "show_raster"
            /\ UNCHANGED frames
       ELSE /\ frames' = [ frames EXCEPT ![1] = show_raster(inp.file, @) ]
            /\ pc' = "r_bounds"
            /\ UNCHANGED << result, fault, openHandles >>
  /\ UNCHANGED << calls, inp, gdf, src, bnds, fig, nHandles, figCount,
                  at_call, earlier >>

\* lines 145-146: raster_crs = src.crs; left, bottom, right, top = src.bounds
RReadBounds ==
  /\ pc = "r_bounds"
  /\ log' = Append(log, "read_crs_bounds")
  /\ bnds' = [ bnds EXCEPT !.raster_crs = inp.file.crs, !.native = inp.file.box ]
  /\ pc' = "r_transform"
  /\ UNCHANGED << calls, inp, gdf, src, fig, frames, openHandles, nHandles,
                  figCount, fault, at_call, result, earlier >>

\* line 150: b3857 = transform_bounds(raster_crs, "EPSG: 3857", left, bottom,
\* right, top); a dataset without a reference system cannot be transformed
RTransform ==
  /\ pc = "r_transform"
  /\ log' = Append(log, "transform_bounds")
  /\ \E fails \in BOOLEAN :
       IF bnds.raster_crs = NoCRS
       THEN /\ Propagate(LibraryError("transform_bounds"))
            /\ UNCHANGED << bnds, fault >>
       ELSE IF fails
       THEN /\ Propagate(LibraryError("transform_bounds"))
            /\ fault' = "transform_bounds"
            /\ UNCHANGED bnds
       ELSE /\ bnds' = [ bnds EXCEPT
                           !.b3857 = to_mercator(bnds.raster_crs, bnds.native) ]
            /\ pc' = "r_add_axes"
            /\ UNCHANGED << result, fault, openHandles >>
  /\ UNCHANGED << calls, inp, gdf, src, fig, frames, nHandles, figCount,
                  at_call, earlier >>

\* line 153: ax_basemap = fig.add_axes(ax.get_position(), frameon=False)
RAddAxes ==
  /\ pc = "r_add_axes"
  /\ log' = Append(log, "add_axes")
  /\ \E fails \in BOOLEAN :
       IF fails
       THEN /\ Propagate(LibraryError("add_axes"))
            /\ fault' = "add_axes"
            /\ UNCHANGED frames
       ELSE /\ frames' = Append(frames, [ NewAxes EXCEPT !.frameon = FALSE ])
            /\ pc' = "r_limits"
            /\ UNCHANGED << result, fault, openHandles >>
  /\ UNCHANGED << calls, inp, gdf, src, bnds, fig, nHandles, figCount,
                  at_call, earlier >>

\* lines 154-155: ax_basemap.set_xlim(b3857[0], b3857[2]);
\*                ax_basemap.set_ylim(b3857[1], b3857[3])
RSetLimits ==
  /\ pc = "r_limits"
  /\ log' = Append(log, "set_lim")
  /\ frames' = [ frames EXCEPT
       ![2].xlim = set_lim(bnds.b3857[1], bnds.b3857[3]),
       ![2].ylim = set_lim(bnds.b3857[2], bnds.b3857[4]) ]
  /\ pc' = "r_basemap"
  /\ UNCHANGED << calls, inp, gdf, src, bnds, fig, openHandles, nHandles,
                  figCount, fault, at_call, result, earlier >>

\* lines 157-162: cx.add_basemap(ax_basemap, crs='EPSG: 3857', ...)
RBasemap ==
  /\ pc = "r_basemap"
  /\ log' = Append(log, "add_basemap")
  /\ \E fails \in BOOLEAN :
       IF fails
       THEN /\ Propagate(LibraryError("add_basemap"))
            /\ fault' = "add_basemap"
            /\ UNCHANGED frames
       ELSE /\ frames' = [ frames EXCEPT
                             ![2] = add_basemap(@, EPSG3857, inp.add_attribution) ]
            /\ pc' = "r_reorder"
            /\ UNCHANGED << result, fault, openHandles >>
  /\ UNCHANGED << calls, inp, gdf, src, bnds, fig, nHandles, figCount,
                  at_call, earlier >>

\* a faulty variant of RReorder: the basemap frame is raised instead of the data frame
RReorder_basemap ==
  /\ pc = "r_reorder"
  /\ log' = Append(log, "set_zorder")
  /\ frames' = [ frames EXCEPT ![2].zorder = 2, ![2].alpha = 0 ]
  /\ pc' = "r_close"
  /\ UNCHANGED << calls, inp, gdf, src, bnds, fig, openHandles, nHandles,
                  figCount, fault, at_call, result, earlier >>

\* lines 166-167: ax.set_zorder(2); ax.patch.set_alpha(0)
RReorder ==
  /\ pc = "r_reorder"
  /\ log' = Append(log, "set_zorder")
  /\ frames' = [ frames EXCEPT ![1].zorder = 2, ![1].alpha = 0 ]
  /\ pc' = "r_close"
  /\ UNCHANGED << calls, inp, gdf, src, bnds, fig, openHandles, nHandles,
                  figCount, fault, at_call, result, earlier >>

\* a faulty variant of RClose: the handle is not released
RClose_forgotten ==
  /\ pc = "r_close"
  /\ log' = log
  /\ pc' = "r_return"
  /\ UNCHANGED << calls, inp, gdf, src, bnds, fig, frames, openHandles,
                  nHandles, figCount, fault, at_call, result, earlier >>

\* line 169: src.close()
RClose ==
  /\ pc = "r_close"
  /\ log' = Append(log, "close")
  /\ openHandles' = openHandles \ {src}
  /\ pc' = "r_return"
  /\ UNCHANGED << calls, inp, gdf, src, bnds, fig, frames, nHandles, figCount,
                  fault, at_call, result, earlier >>

\* line 170: return fig, ax
RReturn ==
  /\ pc = "r_return"
  /\ log' = Append(log, "return")
  /\ Return(1)
  /\ UNCHANGED << calls, inp, gdf, src, bnds, fig, frames, openHandles,
                  nHandles, figCount, fault, at_call, earlier >>

(***************************************************************************)
(* The specification: calls of show_on_basemap, one after the other.       *)
(***************************************************************************)
\* the statements of show_on_basemap after line 97
Step ==
  \/ CheckExists
  \/ Dispatch
  \/ LoadVector
  \/ VSubplots
  \/ VPlot
  \/ VBasemap
  \/ VSetLimits
  \/ VLabels
  \/ VReturn
  \/ LoadRaster
  \/ RSubplots
  \/ RShow
  \/ RReadBounds
  \/ RTransform
  \/ RAddAxes
  \/ RSetLimits
  \/ RBasemap
  \/ RReorder
  \/ RClose
  \/ RReturn

Next == Call \/ Step

Spec == Init /\ [][Next]_vars

\* the dispatcher on many paths: the call, the existence check, the dispatch
\* and the loader the dispatch chose
NextDispatch == CallPath \/ CheckExists \/ Dispatch \/ LoadVector \/ LoadRaster

SpecDispatch == Init /\ [][NextDispatch]_vars

\* repeated calls, an earlier one of which is remembered
NextRepeat == CallRepeat \/ Step

SpecRepeat == Init /\ [][NextRepeat]_vars

(***************************************************************************)
(* Vocabulary of the properties.                                           *)
(***************************************************************************)
\* the call has ended
Ended == pc = "done"

Returned == Ended /\ result.status = "returned"

Raised == Ended /\ result.status = "raised"

\* the running call has executed statement l
Ran(l) == \E i \in 1..Len(log) : log[i] = l

\* how often the running call has executed statement l
Count(l) == Cardinality({ i \in 1..Len(log) : log[i] = l })

\* the position of the first execution of statement l
Pos(l) == CHOOSE i \in 1..Len(log) : log[i] = l /\ \A j \in 1..(i-1) : log[j] # l

\* c and d are the same letter in either case, or the same character
SameLetter(c, d) ==
  \/ c = d
  \/ \E k \in 1..Len(LowerAlpha) : {c, d} = {LowerAlpha[k], UpperAlpha[k]}

\* path p ends in extension e, written in any case, after a non-empty name
EndsIn(p, e) ==
  /\ Len(p) > Len(e)
  /\ p[Len(p) - Len(e)] # "/"
  /\ \A i \in 1..Len(e) : SameLetter(p[Len(p) - Len(e) + i], e[i])

HasVectorExt(p) == \E e \in { Ext_shp, Ext_geojson, Ext_json, Ext_gpkg, Ext_fgb } : EndsIn(p, e)

HasRasterExt(p) == \E e \in { Ext_tif, Ext_tiff, Ext_geotiff } : EndsIn(p, e)

\* the branch the dispatcher took: "" before it ran
Branch ==
  IF ~ Ran("_is_vector") THEN ""
  ELSE IF ~ Ran("_is_raster") THEN "vector"
  ELSE IF Ran("open") \/ pc = "load_raster" THEN "raster"
  ELSE "unsupported"

\* the elements of a sequence
Range(q) == { q[i] : i \in 1..Len(q) }

\* _load_vector has returned in the running call
VectorLoaded ==
  /\ Ran("_load_vector")
  /\ ~ (Raised /\ log[Len(log)] = "_load_vector")

\* the call returned from the vector path
VectorReturned == Returned /\ Branch = "vector"

\* the call returned from the raster path
RasterReturned == Returned /\ Branch = "raster"

\* the kinds of the layers drawn in frame f
Kinds(f) == { f.layers[i].kind : i \in 1..Len(f.layers) }

\* the stage a statement belongs to: 1 existence check, 2 dispatcher,
\* 3 loader, 4 renderer
Stage(l) ==
  CASE l = "exists"                          -> 1
    [] l \in { "_is_vector", "_is_raster" }  -> 2
    [] l \in { "_load_vector", "open" }      -> 3
    [] OTHER                                 -> 4

VectorRenderer == { "subplots", "plot", "add_basemap", "set_lim", "set_label", "return" }

RasterRenderer ==
  { "subplots", "show_raster", "read_crs_bounds", "transform_bounds", "add_axes",
    "set_lim", "add_basemap", "set_zorder", "close", "return" }

\* what the caller sees of a call, the figure's number aside
Outcome(r) == [ status |-> r.status, error |-> r.error, ax |-> r.ax, frames |-> r.frames ]

(***************************************************************************)
(* C1: a call whose data_path does not exist ends with FileNotFoundError,  *)
(* whatever the extension, and the existence check is the only statement   *)
(* it ran: the path was not classified, no loader ran, no raster handle    *)
(* was opened and no figure was created.                                   *)
(***************************************************************************)
C1_NotFoundBeforeAll ==
  (pc \notin {"idle", "exists"} /\ inp.file.format = "absent") =>
    /\ Raised
    /\ result.error.type = "FileNotFoundError"
    /\ result.error.about = inp.path
    /\ log = << "exists" >>
    /\ gdf = NoGdf /\ src = 0 /\ fig = 0 /\ frames = << >>
    /\ openHandles = at_call.openHandles
    /\ figCount = at_call.figCount

\* a missing file with a raster extension, in a call made after an earlier
\* call left a figure behind
C1_Witness ==
  /\ Raised
  /\ inp.file.format = "absent"
  /\ HasRasterExt(inp.path)
  /\ result.error.type = "FileNotFoundError"
  /\ at_call.figCount > 0

C4_LoadedIn3857 ==
  VectorLoaded =>
    /\ gdf.crs = EPSG3857
    /\ gdf.crs # NoCRS
    /\ inp.file.crs # EPSG3857 => gdf.crs # inp.file.crs
    /\ inp.file.crs = NoCRS => gdf.from = EPSG4326
    /\ inp.file.crs # NoCRS => gdf.from = inp.file.crs
    /\ gdf.box = to_mercator(gdf.from, inp.file.box)

\* a source that declares a system other than EPSG:4326 and EPSG:3857
C4_Witness ==
  /\ VectorLoaded
  /\ inp.file.crs = "EPSG:32633"
  /\ gdf.from = "EPSG:32633"
  /\ gdf.box # inp.file.box

(***************************************************************************)
(* C5 as stated: after a successful call on a vector input the returned    *)
(* frame's x limits are (minx, maxx) and its y limits (miny, maxy) of the  *)
(* reprojected data's bounding box.                                        *)
(***************************************************************************)
C5_LimitsEqualBox ==
  VectorReturned =>
    /\ result.frames[result.ax].xlim = << total_bounds(gdf)[1], total_bounds(gdf)[3] >>
    /\ result.frames[result.ax].ylim = << total_bounds(gdf)[2], total_bounds(gdf)[4] >>

(***************************************************************************)
(* C5 amended: the limits are set after the data is plotted and after the  *)
(* basemap is drawn, and on every axis along which the bounding box has a  *)
(* non-zero size the returned limits are exactly (min, max) of the box;    *)
(* along an axis where min = max the frame shows a wider interval around   *)
(* that value.                                                             *)
(***************************************************************************)
C5_LimitsEqualProperBox ==
  VectorReturned =>
    LET b  == total_bounds(gdf)
        ax == result.frames[result.ax]
    IN  /\ Count("plot") = 1 /\ Count("add_basemap") = 1 /\ Count("set_lim") = 1
        /\ Pos("plot") < Pos("add_basemap")
        /\ Pos("add_basemap") < Pos("set_lim")
        /\ b[1] < b[3] => ax.xlim = << b[1], b[3] >>
        /\ b[2] < b[4] => ax.ylim = << b[2], b[4] >>
        /\ b[1] = b[3] => (ax.xlim[1] < b[1] /\ b[3] < ax.xlim[2])
        /\ b[2] = b[4] => (ax.ylim[1] < b[2] /\ b[4] < ax.ylim[2])

\* a dataset whose box has a non-zero width and height, whose basemap was
\* drawn for the wider view the plot step chose
C5_Witness ==
  /\ VectorReturned
  /\ total_bounds(gdf)[1] < total_bounds(gdf)[3]
  /\ total_bounds(gdf)[2] < total_bounds(gdf)[4]
  /\ result.frames[1].xlim = << total_bounds(gdf)[1], total_bounds(gdf)[3] >>
  /\ result.frames[1].layers[2].kind = "basemap"
  /\ result.frames[1].layers[2].box # total_bounds(gdf)

(***************************************************************************)
(* C6: when a call on a raster input returns, the handle it opened is      *)
(* closed: it was opened once and closed once, and the pixels were drawn   *)
(* and the reference system and bounds read after the open and before the  *)
(* close.                                                                  *)
(***************************************************************************)
C6_HandleClosedOnReturn ==
  RasterReturned =>
    /\ src # 0
    /\ src \notin at_call.openHandles
    /\ src \notin openHandles
    /\ openHandles = at_call.openHandles
    /\ nHandles = src
    /\ Count("open") = 1
    /\ Count("close") = 1
    /\ Count("show_raster") = 1
    /\ Count("read_crs_bounds") = 1
    /\ Pos("open") < Pos("show_raster")
    /\ Pos("show_raster") < Pos("close")
    /\ Pos("open") < Pos("read_crs_bounds")
    /\ Pos("read_crs_bounds") < Pos("close")

\* a successful raster call made while an earlier call's handle is still open
C6_Witness ==
  /\ RasterReturned
  /\ src \notin openHandles
  /\ at_call.openHandles # {}

(***************************************************************************)
(* C7: when a library call made after the handle was opened and before     *)
(* src.close() fails, the call ends with that library's exception as it    *)
(* was raised, no later statement runs and the handle is left open; a      *)
(* handle this call opened is closed only by src.close() on the way to the *)
(* return.                                                                 *)
(***************************************************************************)
C7_FailureLeavesHandleOpen ==
  /\ (Raised /\ Ran("open") /\ src # 0) =>
       /\ result.error.type = "LibraryError"
       /\ result.error.origin \in
            { "subplots", "show_raster", "transform_bounds", "add_axes", "add_basemap" }
       /\ log[Len(log)] = result.error.origin
       /\ ~ Ran("close")
       /\ src \in openHandles
       /\ openHandles = at_call.openHandles \cup {src}
  /\ (src # 0 /\ src \notin openHandles) =>
       (Ran("close") /\ (pc = "r_return" \/ Returned))

\* the tiles could not be fetched: the last library call before the close
C7_Witness ==
  /\ Raised
  /\ result.error.origin = "add_basemap"
  /\ src # 0
  /\ src \in openHandles
  /\ Len(frames) = 2

(***************************************************************************)
(* C8: after a successful call on a raster input the figure holds exactly  *)
(* two frames; the frame returned is the one the raster was drawn in, not  *)
(* the one the basemap was drawn in; the returned frame has the higher     *)
(* draw order and a transparent background.                                *)
(***************************************************************************)
C8_DataFrameOnTop ==
  RasterReturned =>
    /\ Len(result.frames) = 2
    /\ result.ax \in 1..2
    /\ Kinds(result.frames[result.ax]) = {"raster"}
    /\ Kinds(result.frames[3 - result.ax]) = {"basemap"}
    /\ result.frames[result.ax].zorder > result.frames[3 - result.ax].zorder
    /\ result.frames[result.ax].alpha = 0
    /\ result.frames[3 - result.ax].frameon = FALSE
    /\ result.fig = fig

C8_Witness ==
  /\ RasterReturned
  /\ Len(result.frames) = 2
  /\ result.frames[result.ax].zorder = 2
  /\ result.frames[3 - result.ax].zorder = 0
  /\ result.frames[3 - result.ax].layers[1].attribution

(***************************************************************************)
(* C9: on the raster path the raster is drawn in the primary frame in its  *)
(* native reference system and with its native bounds; only the bounding   *)
(* box (left, bottom, right, top) is transformed to Web Mercator; the      *)
(* basemap frame's limits are (minx, maxx) and (miny, maxy) of the         *)
(* transformed box, and were so when the tiles were drawn into it.         *)
(***************************************************************************)
C9_OnlyBoundsTransformed ==
  /\ (Branch = "raster" /\ Ran("show_raster") /\ Len(frames) >= 1 /\ Len(frames[1].layers) >= 1) =>
       /\ Len(frames[1].layers) = 1
       /\ frames[1].layers[1].kind = "raster"
       /\ frames[1].layers[1].crs = inp.file.crs
       /\ frames[1].layers[1].box = inp.file.box
       /\ << frames[1].xlim[1], frames[1].ylim[1], frames[1].xlim[2], frames[1].ylim[2] >>
            = inp.file.box
  /\ (Branch = "raster" /\ Ran("transform_bounds") /\ ~ (Raised /\ log[Len(log)] = "transform_bounds")) =>
       /\ bnds.native = inp.file.box
       /\ bnds.b3857 = to_mercator(inp.file.crs, inp.file.box)
  /\ (Branch = "raster" /\ Ran("set_lim")) =>
       /\ frames[2].xlim = << bnds.b3857[1], bnds.b3857[3] >>
       /\ frames[2].ylim = << bnds.b3857[2], bnds.b3857[4] >>
       /\ Ran("add_basemap") => Pos("set_lim") < Pos("add_basemap")
       /\ \A i \in 1..Len(frames[2].layers) :
            /\ frames[2].layers[i].kind = "basemap"
            /\ frames[2].layers[i].crs = EPSG3857
            /\ frames[2].layers[i].box = bnds.b3857

\* a raster in EPSG:4326 whose tiles were drawn for the transformed box
C9_Witness ==
  /\ RasterReturned
  /\ inp.file.crs = EPSG4326
  /\ frames[1].layers[1].crs = EPSG4326
  /\ Len(frames[2].layers) = 1
  /\ frames[2].layers[1].box = bnds.b3857
  /\ bnds.b3857 # bnds.native

(***************************************************************************)
(* C10: every call is one linear pass: the existence check, then the       *)
(* dispatch, then at most one loader, then the statements of at most one   *)
(* renderer, no statement run twice; a call that creates a figure creates  *)
(* one that did not exist before the call; and two calls with the same     *)
(* arguments, the same file at the path and the same failing library call  *)
(* (if any) end alike, whatever the calls before them left behind: the     *)
(* same error, or the same frame with the same frames and limits.          *)
(***************************************************************************)
C10_LinearAndIndependent ==
  /\ \A i, j \in 1..Len(log) : i < j => (log[i] # log[j] /\ Stage(log[i]) <= Stage(log[j]))
  /\ Len(log) >= 1 => log[1] = "exists"
  /\ Count("_load_vector") + Count("open") <= 1
  /\ \/ { l \in Range(log) : Stage(l) = 4 } \subseteq VectorRenderer
     \/ { l \in Range(log) : Stage(l) = 4 } \subseteq RasterRenderer
  /\ fig # 0 => (fig > at_call.figCount /\ fig <= figCount)
  /\ Returned => (result.fig = fig /\ fig # 0)
  /\ (Ended /\ earlier.set /\ earlier.result.status = "returned" /\ Returned) =>
       earlier.result.fig # result.fig
  /\ (Ended /\ earlier.set /\ earlier.inp = inp /\ earlier.fault = fault) =>
       Outcome(earlier.result) = Outcome(result)

\* the same raster call twice, the first made with no handle open and no
\* figure, the second after a failed call left a handle open and a figure
C10_Witness ==
  /\ Returned
  /\ Branch = "raster"
  /\ earlier.set
  /\ earlier.inp = inp
  /\ earlier.fault = fault
  /\ earlier.result.status = "returned"
  /\ at_call.openHandles # {}
  /\ at_call.figCount > 1

====
